---- MODULE Spec2Model ----
(***************************************************************************)
(* A model of pstide.py: the calendar/time functions (cal_to_jd,           *)
(* jd_to_cal, is_dst, lt_to_ut, ut_to_lt, ...) and the harmonic synthesis  *)
(* loop of predict_tides.                                                  *)
(*                                                                         *)
(* Numbers.  A Julian Day, a day-of-month with its fraction and a span of  *)
(* days are Python floats in the source.  They are modelled as exact reals *)
(* on a one-second lattice that also counts the 1e-9 day nudges the code   *)
(* adds: the record [d, s, n] stands for  d + s/86400 + n*1e-9  days,      *)
(* with d an integer, 0 <= s < 86400, and n*1e-9 far below one second.     *)
(* Double rounding is modelled bit for bit (type Dbl below) at the two     *)
(* places where predict_tides turns a float into a discrete decision:      *)
(* int(series_days / step_days) and the test j % nodeint == 0.             *)
(***************************************************************************)
EXTENDS Integers, Sequences, FiniteSets, TLC

\* minutes_per_day = 60.0 * 24.0 ; seconds_per_day = minutes_per_day * 60.0
minutes_per_day == 1440
seconds_per_day == minutes_per_day * 60

------------------------------------------------------------------------------
(* Exact arithmetic on [d, s, n] values                                     *)

\* the value d + s/86400 + n*1e-9 days, s brought back into 0..86399
T(d, s, n) == [d |-> d + (s \div seconds_per_day), s |-> s % seconds_per_day, n |-> n]

TAdd(a, b) == T(a.d + b.d, a.s + b.s, a.n + b.n)

TSub(a, b) == T(a.d - b.d, a.s - b.s, a.n - b.n)

\* a < b
TLess(a, b) ==
    \/ a.d < b.d
    \/ a.d = b.d /\ a.s < b.s
    \/ a.d = b.d /\ a.s = b.s /\ a.n < b.n

\* Python's int(num/den) for den > 0: truncation toward zero
Trunc(num, den) == IF num >= 0 THEN num \div den ELSE -((-num) \div den)

------------------------------------------------------------------------------
(* calendar.py part of pstide.py                                            *)

standard_timezone_offset == T(0, 8 * 3600, 0)
daylight_timezone_offset == T(0, 7 * 3600, 0)

\* B = 2 - A + (A / 4): in Python 3 "/" is the true division, so A / 4 is a
\* number of quarter days (21600 s each), not INT(A/4)
cal_to_jd_B(A) == T(2 - A, A * 21600, 0)

cal_to_jd(yr0, mo0, day, gregorian) ==
    LET yr == IF mo0 <= 2 THEN yr0 - 1 ELSE yr0
        mo == IF mo0 <= 2 THEN mo0 + 12 ELSE mo0
        A  == Trunc(yr, 100)
        B  == IF gregorian THEN cal_to_jd_B(A) ELSE T(0, 0, 0)
        whole == Trunc(36525 * (yr + 4716), 100) + Trunc(306001 * (mo + 1), 10000)
    IN  TAdd(TAdd(TAdd(T(whole, 0, 0), day), B), T(-1525, 43200, 0))

is_leap_year(yr, gregorian) ==
    IF gregorian
    THEN (yr % 4 = 0) /\ ((yr % 100 # 0) \/ (yr % 400 = 0))
    ELSE yr % 4 = 0

\* sec is a whole number of seconds here
hms_to_fday(hr, mn, sec) == T(0, hr * 3600 + mn * 60 + sec, 0)

jd_to_cal(jd0, gregorian) ==
    LET jd    == TAdd(jd0, T(0, 0, 1))
        half  == TAdd(jd, T(0, 43200, 0))
        Z     == half.d
        F     == T(0, half.s, half.n)
        alpha == Trunc(100 * Z - 186721625, 3652425)
        A     == IF gregorian THEN Z + 1 + alpha - Trunc(alpha, 4) ELSE Z
        B     == A + 1524
        C     == Trunc(100 * B - 12210, 36525)
        D     == Trunc(36525 * C, 100)
        E     == Trunc(10000 * (B - D), 306001)
        day   == TAdd(T(B - D - Trunc(306001 * E, 10000), 0, 0), F)
        mo    == IF E < 14 THEN E - 1 ELSE E - 13
        yr    == IF mo > 2 THEN C - 4716 ELSE C - 4715
    IN  [yr |-> yr, mo |-> mo, day |-> day]

jd_to_day_of_week(jd) == TAdd(jd, T(1, 43200, 0)).d % 7

\* is_dst, lines 502-519: the instant daylight time begins in year yr
dst_start(yr, st_offset) ==
    LET april1 == cal_to_jd(yr, 4, T(1, 0, 0), TRUE)
        dow    == jd_to_day_of_week(april1)
        sunday == IF dow # 0 THEN TAdd(april1, T(7 - dow, 0, 0)) ELSE april1
    IN  TAdd(TAdd(sunday, T(0, 2 * 3600, 0)), st_offset)

\* is_dst, lines 527-543: the instant daylight time ends in year yr
dst_stop(yr, dt_offset) ==
    LET oct31  == cal_to_jd(yr, 10, T(31, 0, 0), TRUE)
        dow    == jd_to_day_of_week(oct31)
        sunday == TSub(oct31, T(dow, 0, 0))
    IN  TAdd(TAdd(sunday, T(0, 2 * 3600, 0)), dt_offset)

is_dst(jd, st_offset, dt_offset) ==
    LET yr == jd_to_cal(jd, TRUE).yr
    IN  IF TLess(jd, dst_start(yr, st_offset)) THEN FALSE
        ELSE IF TLess(jd, dst_stop(yr, dt_offset)) THEN TRUE
        ELSE FALSE

\* is_dst asked with the zone offsets, i.e. for a Universal Time instant
lt_to_ut_dst_of_ut(jd, st_offset, dt_offset) ==
    IF is_dst(jd, st_offset, dt_offset)
    THEN TAdd(jd, dt_offset)
    ELSE TAdd(jd, st_offset)

lt_to_ut(jd, st_offset, dt_offset) ==
    IF is_dst(jd, T(0, 0, 0), T(0, 0, 0))
    THEN TAdd(jd, dt_offset)
    ELSE TAdd(jd, st_offset)

ut_to_lt(jd) ==
    IF is_dst(jd, standard_timezone_offset, daylight_timezone_offset)
    THEN [jd |-> TSub(jd, T(0, 7 * 3600, 0)), zone |-> "PDT"]
    ELSE [jd |-> TSub(jd, T(0, 8 * 3600, 0)), zone |-> "PST"]

\* hours and minutes are whole; the seconds keep what is left of the day
\* fraction (whole seconds in s, nudges in n)
fday_to_hms(days) ==
    [hour |-> days.s \div 3600, minute |-> (days.s % 3600) \div 60,
     second |-> [s |-> days.s % 60, n |-> days.n]]

\* the fields jd_to_ISO prints at level "minute"
jd_to_ISO(jd, zone) ==
    LET c   == jd_to_cal(jd, TRUE)
        hms == fday_to_hms(c.day)
    IN  [yr |-> c.yr, mon |-> c.mo, iday |-> c.day.d, hr |-> hms.hour, mn |-> hms.minute,
         zone |-> zone]

------------------------------------------------------------------------------
(* Exact fractions, for the "/" of easter: num / den with den > 0, in       *)
(* lowest terms.  The rounding of these quotients to doubles (relative      *)
(* error 1e-16) is not modelled.                                            *)

RECURSIVE gcd(_, _)
gcd(a, b) == IF b = 0 THEN a ELSE gcd(b, a % b)

Q(n, d) ==
    LET g == gcd(IF n < 0 THEN -n ELSE n, d)
    IN  [num |-> n \div g, den |-> d \div g]

QInt(k) == [num |-> k, den |-> 1]

QAdd(x, y) ==
    LET l == (x.den \div gcd(x.den, y.den)) * y.den
    IN  Q(x.num * (l \div x.den) + y.num * (l \div y.den), l)

QNeg(x) == [num |-> -x.num, den |-> x.den]

QSub(x, y) == QAdd(x, QNeg(y))

\* x * k and x / k for an integer k > 0
QTimes(x, k) == LET g == gcd(k, x.den) IN [num |-> x.num * (k \div g), den |-> x.den \div g]
QOver(x, k) ==
    LET g == gcd(IF x.num < 0 THEN -x.num ELSE x.num, k)
    IN  [num |-> x.num \div g, den |-> x.den * (k \div g)]

\* Python's x % k for a float x and an integer k > 0: x - k * floor(x / k)
QMod(x, k) == QSub(x, QInt(k * (x.num \div (x.den * k))))

\* lines 409-445.  In Python 3 every "/" below is the true division.
easter(yr, gregorian) ==
    IF gregorian
    THEN LET a == yr % 19
             b == Q(yr, 100)
             c == yr % 100
             d == QOver(b, 4)
             e == QMod(b, 4)
             f == QOver(QAdd(b, QInt(8)), 25)
             g == QOver(QAdd(QSub(b, f), QInt(1)), 3)
             h == QMod(QAdd(QSub(QSub(QAdd(QInt(19 * a), b), d), g), QInt(15)), 30)
             i == Q(c, 4)
             k == c % 4
             l == QMod(QSub(QSub(QAdd(QAdd(QInt(32), QTimes(e, 2)), QTimes(i, 2)), h), QInt(k)), 7)
             m == QOver(QAdd(QAdd(QInt(a), QTimes(h, 11)), QTimes(l, 22)), 451)
             tmp == QAdd(QSub(QAdd(h, l), QTimes(m, 7)), QInt(114))
         IN  [mo |-> QOver(tmp, 31), dy |-> QAdd(QMod(tmp, 31), QInt(1))]
    ELSE LET a == yr % 4
             b == yr % 7
             c == yr % 19
             d == (19 * c + 15) % 30
             e == (2 * a + 4 * b - d + 34) % 7
             tmp == d + e + 114
         IN  [mo |-> Q(tmp, 31), dy |-> QInt((tmp % 31) + 1)]

\* the names line 779 imports from math; "from math import *" at line 323 is
\* a comment
math_names == {"cos", "sin", "tan", "acos", "asin", "atan", "sqrt"}

\* line 636, kept symbolic
jd_to_jcent(x) == [jcent_of |-> x]

\* lines 695-713: T, T2, T3 and theta0 are computed, then radians is looked
\* up; the value of theta0 % 360 is kept symbolic
sidereal_time_greenwich(x) ==
    LET theta0 == [theta0_mod_360_at |-> jd_to_jcent(x)]
    IN  IF "radians" \in math_names
        THEN [ok |-> TRUE, result |-> [radians_of |-> theta0]]
        ELSE [ok |-> FALSE, exc |-> [type |-> "NameError", arg |-> "radians"]]

------------------------------------------------------------------------------
(* IEEE-754 double precision, as far as predict_tides needs it.             *)
(* A nonzero double is sgn * (hi * 2^27 + lo) * 2^e with a 53-bit mantissa  *)
(* 2^52 <= hi * 2^27 + lo < 2^53, kept in two 27-bit limbs; zero has        *)
(* sgn = 0.  The operands met here are far from overflow and from the       *)
(* subnormal range.                                                         *)

Limb == 2 ^ 27
TopBit == 2 ^ 25

DblZero == [sgn |-> 0, hi |-> 0, lo |-> 0, e |-> 0]

WGe(a, b) == a.hi > b.hi \/ (a.hi = b.hi /\ a.lo >= b.lo)

WSub(a, b) ==
    IF a.lo >= b.lo
    THEN [hi |-> a.hi - b.hi, lo |-> a.lo - b.lo]
    ELSE [hi |-> a.hi - b.hi - 1, lo |-> a.lo + Limb - b.lo]

\* a * k for a small k (k <= 8)
WMul(a, k) == [hi |-> k * a.hi + ((k * a.lo) \div Limb), lo |-> (k * a.lo) % Limb]

WInc(a) ==
    IF a.lo + 1 = Limb THEN [hi |-> a.hi + 1, lo |-> 0] ELSE [hi |-> a.hi, lo |-> a.lo + 1]

\* a shifted right by k bits (the bits shifted out are dropped)
WShr(a, k) ==
    IF k >= 54 THEN [hi |-> 0, lo |-> 0]
    ELSE IF k >= 27 THEN [hi |-> 0, lo |-> a.hi \div (2 ^ (k - 27))]
    ELSE [hi |-> a.hi \div (2 ^ k),
          lo |-> (a.lo \div (2 ^ k)) + (a.hi % (2 ^ k)) * (2 ^ (27 - k))]

\* the k low bits of a, for k <= 2
WLow(a, k) == a.lo % (2 ^ k)

\* number of bits of an integer 0 < k < 2^27
BitLen(k) == CHOOSE b \in 1..27 : 2 ^ (b - 1) <= k /\ k < 2 ^ b

\* float(k) for an integer k with |k| < 2^27 (exact)
IntToDbl(k) ==
    IF k = 0 THEN DblZero
    ELSE LET a == IF k < 0 THEN -k ELSE k
             b == BitLen(a)
             w == IF b <= 26 THEN [hi |-> a * (2 ^ (26 - b)), lo |-> 0]
                             ELSE [hi |-> a \div 2, lo |-> (a % 2) * (2 ^ 26)]
         IN  [sgn |-> IF k < 0 THEN -1 ELSE 1, hi |-> w.hi, lo |-> w.lo, e |-> b - 53]

\* x * 2^k (exact)
DblScale2(x, k) == IF x.sgn = 0 THEN x ELSE [x EXCEPT !.e = @ + k]

\* long division, three quotient bits at a time: the quotient and the
\* remainder of rem * 8^steps by den, for rem < den
RECURSIVE LongDiv(_, _, _, _)
LongDiv(rem, den, quo, steps) ==
    IF steps = 0 THEN [q |-> quo, r |-> rem]
    ELSE LET r8    == WMul(rem, 8)
             digit == CHOOSE k \in 0..7 :
                          WGe(r8, WMul(den, k)) /\ ~WGe(r8, WMul(den, k + 1))
             q8    == WMul(quo, 8)
         IN  LongDiv(WSub(r8, WMul(den, digit)), den,
                     [hi |-> q8.hi, lo |-> q8.lo + digit], steps - 1)

\* x / y, y nonzero, rounded to nearest, ties to even
FDiv(x, y) ==
    IF x.sgn = 0 THEN DblZero
    ELSE LET a     == [hi |-> x.hi, lo |-> x.lo]
             b     == [hi |-> y.hi, lo |-> y.lo]
             big   == WGe(a, b)
             \* 54 fraction bits of the quotient of the mantissas
             d     == LongDiv(IF big THEN WSub(a, b) ELSE a, b,
                              [hi |-> 0, lo |-> IF big THEN 1 ELSE 0], 18)
             drop  == IF big THEN 2 ELSE 1
             kept  == WShr(d.q, drop)
             low   == WLow(d.q, drop)
             half  == 2 ^ (drop - 1)
             exact == d.r.hi = 0 /\ d.r.lo = 0
             up    == \/ low > half
                      \/ low = half /\ ~exact
                      \/ low = half /\ exact /\ kept.lo % 2 = 1
             m     == IF up THEN WInc(kept) ELSE kept
             e     == x.e - y.e - 54 + drop
         IN  IF m.hi >= 2 * TopBit
             THEN [sgn |-> x.sgn * y.sgn, hi |-> TopBit, lo |-> 0, e |-> e + 1]
             ELSE [sgn |-> x.sgn * y.sgn, hi |-> m.hi, lo |-> m.lo, e |-> e]

\* Python's int(x): truncation toward zero, for |x| < 2^27
DblToInt(x) ==
    IF x.sgn = 0 \/ x.e >= 0 THEN 0
    ELSE x.sgn * WShr([hi |-> x.hi, lo |-> x.lo], -x.e).lo

\* number of trailing zero bits of a nonzero limb
LimbZeros(k) == CHOOSE z \in 0..26 : k % (2 ^ z) = 0 /\ k % (2 ^ (z + 1)) # 0

\* number of trailing zero bits of a nonzero mantissa
WZeros(a) == IF a.lo # 0 THEN LimbZeros(a.lo) ELSE 27 + LimbZeros(a.hi)

\* the remainder taken as nonzero at j = 0, as if passes were counted from 1
FModIsZero_from_one(j, x) ==
    IF j = 0 THEN FALSE
    ELSE LET w   == [hi |-> x.hi, lo |-> x.lo]
             z   == WZeros(w)
             odd == WShr(w, z)
             e   == x.e + z
         IN  IF odd.hi # 0 \/ odd.lo > j THEN FALSE
             ELSE IF e <= 0 THEN j % odd.lo = 0
             ELSE IF e > 26 \/ 2 ^ e > j THEN FALSE
             ELSE j % (2 ^ e) = 0 /\ (j \div (2 ^ e)) % odd.lo = 0

\* j % x == 0 for an integer 0 <= j < 2^27 and a nonzero double x: Python's
\* float remainder is exact, so it is zero exactly when j is a whole
\* multiple of |x| = odd * 2^e
FModIsZero(j, x) ==
    IF j = 0 THEN TRUE
    ELSE LET w   == [hi |-> x.hi, lo |-> x.lo]
             z   == WZeros(w)
             odd == WShr(w, z)
             e   == x.e + z
         IN  IF odd.hi # 0 \/ odd.lo > j THEN FALSE
             ELSE IF e <= 0 THEN j % odd.lo = 0
             ELSE IF e > 26 \/ 2 ^ e > j THEN FALSE
             ELSE j % (2 ^ e) = 0 /\ (j \div (2 ^ e)) % odd.lo = 0

\* number of bits of an integer 0 < k < 2^31
LimbBits(k) == CHOOSE b \in 1..31 : 2 ^ (b - 1) <= k /\ (k \div 2) < 2 ^ (b - 1)

\* number of bits of a nonzero two-limb integer
WBits(a) == IF a.hi > 0 THEN 27 + LimbBits(a.hi) ELSE LimbBits(a.lo)

WAdd(a, b) ==
    [hi |-> a.hi + b.hi + ((a.lo + b.lo) \div Limb), lo |-> (a.lo + b.lo) % Limb]

\* a shifted left by k bits, for a result below 2^58
WShl(a, k) ==
    IF k >= 27 THEN [hi |-> a.lo * (2 ^ (k - 27)), lo |-> 0]
    ELSE [hi |-> a.hi * (2 ^ k) + (a.lo \div (2 ^ (27 - k))),
          lo |-> (a.lo % (2 ^ (27 - k))) * (2 ^ k)]

\* is one of the t low bits of a set
WLowSet(a, t) ==
    IF t <= 0 THEN FALSE
    ELSE IF t <= 27 THEN a.lo % (2 ^ t) # 0
    ELSE IF t >= 58 THEN a.lo # 0 \/ a.hi # 0
    ELSE a.lo # 0 \/ a.hi % (2 ^ (t - 27)) # 0

\* the double nearest to sgn * w * 2^e (ties to even), for a two-limb
\* integer 0 <= w < 2^58
FRound(sgn, w, e) ==
    IF w.hi = 0 /\ w.lo = 0 THEN DblZero
    ELSE LET b == WBits(w)
         IN  IF b <= 53
             THEN LET m == WShl(w, 53 - b)
                  IN  [sgn |-> sgn, hi |-> m.hi, lo |-> m.lo, e |-> e - (53 - b)]
             ELSE LET s    == b - 53
                      kept == WShr(w, s)
                      rbit == WShr(w, s - 1).lo % 2
                      up   == rbit = 1 /\ (WLowSet(w, s - 1) \/ kept.lo % 2 = 1)
                      m    == IF up THEN WInc(kept) ELSE kept
                  IN  IF m.hi >= 2 * TopBit
                      THEN [sgn |-> sgn, hi |-> TopBit, lo |-> 0, e |-> e + s + 1]
                      ELSE [sgn |-> sgn, hi |-> m.hi, lo |-> m.lo, e |-> e + s]

\* x * k for a double x and an odd integer 0 < k <= 15
FTimes(x, k) == IF x.sgn = 0 THEN x ELSE FRound(x.sgn, WMul([hi |-> x.hi, lo |-> x.lo], k), x.e)

\* x + y for doubles x, y >= 0
FAdd(x, y) ==
    IF x.sgn = 0 THEN y
    ELSE IF y.sgn = 0 THEN x
    ELSE LET a == IF x.e >= y.e THEN x ELSE y
             b == IF x.e >= y.e THEN y ELSE x
             k == a.e - b.e
             am == [hi |-> a.hi, lo |-> a.lo]
             bm == [hi |-> b.hi, lo |-> b.lo]
         IN  IF k > 55 THEN a
             ELSE IF k <= 3 THEN FRound(1, WAdd(WShl(am, k), bm), b.e)
             ELSE LET bs     == WShr(bm, k - 3)
                      sticky == IF WLowSet(bm, k - 3) /\ bs.lo % 2 = 0 THEN 1 ELSE 0
                  IN  FRound(1, WAdd(WShl(am, 3), [hi |-> bs.hi, lo |-> bs.lo + sticky]), a.e - 3)

\* x < y for doubles x, y >= 0
FLess(x, y) ==
    IF y.sgn = 0 THEN FALSE
    ELSE IF x.sgn = 0 THEN TRUE
    ELSE x.e < y.e \/ (x.e = y.e /\ ~WGe([hi |-> x.hi, lo |-> x.lo], [hi |-> y.hi, lo |-> y.lo]))

\* math.modf(x) for a double 0 <= x < 2^27: the fractional and the whole
\* part, both exact
modf(x) ==
    IF x.sgn = 0 \/ x.e <= -53 THEN [frac |-> x, whole |-> 0]
    ELSE IF x.e >= 0 THEN [frac |-> DblZero, whole |-> DblToInt(x)]
    ELSE LET m  == [hi |-> x.hi, lo |-> x.lo]
             ip == WShr(m, -x.e)
         IN  [frac |-> FRound(1, WSub(m, WShl(ip, -x.e)), x.e), whole |-> ip.lo]

\* 1.0 - y for a double 0 < y < 1
OneMinus(y) ==
    LET m == [hi |-> y.hi, lo |-> y.lo]
        k == -(y.e + 53)
        one == [hi |-> 2 * TopBit, lo |-> 0]
    IN  IF k = 0 THEN FRound(1, WSub(one, m), -53)
        ELSE LET q    == WShr(m, k)
                 rbit == WShr(m, k - 1).lo % 2
                 rest == WLowSet(m, k - 1)
                 \* 2^53 - m / 2^k lies between lower and lower + 1
                 exact == rbit = 0 /\ ~rest
                 lower == IF exact THEN WSub(one, q) ELSE WSub(WSub(one, q), [hi |-> 0, lo |-> 1])
                 upper == rbit = 0 \/ (~rest /\ lower.lo % 2 = 1)
             IN  FRound(1, IF exact \/ ~upper THEN lower ELSE WInc(lower), -53)

\* Python's x % 1 for a double |x| < 2^27: fmod(x, 1), and 1.0 added to a
\* negative remainder
FMod1(x) ==
    IF x.sgn >= 0 THEN modf(x).frac
    ELSE LET r == modf([x EXCEPT !.sgn = 1]).frac
         IN  IF r.sgn = 0 THEN DblZero ELSE OneMinus(r)

\* hms_to_fday, line 481, in double arithmetic
hms_to_fday_double(hr, mn, sec) ==
    FAdd(FAdd(FDiv(IntToDbl(hr), IntToDbl(24)), FDiv(IntToDbl(mn), IntToDbl(minutes_per_day))),
         FDiv(IntToDbl(sec), IntToDbl(seconds_per_day)))

\* fday_to_hms, lines 460-464, in double arithmetic: 24.0 = 3 * 2^3 and
\* 60.0 = 15 * 2^2
fday_to_hms_double(days) ==
    LET dfrac == FMod1(days)
        h     == modf(DblScale2(FTimes(dfrac, 3), 3))
        m     == modf(DblScale2(FTimes(h.frac, 15), 2))
    IN  [hours |-> h.whole, minutes |-> m.whole,
         seconds |-> DblScale2(FTimes(m.frac, 15), 2)]

------------------------------------------------------------------------------
(* Inputs and bounds                                                        *)

\* civil dates fed to the calendar functions
MinYear == 1999
MaxYear == 2001
MinuteChoices == {0, 1, 59}

\* arguments of predict_tides
MaxSeriesDays == 35
SeriesDaysChoices == (-2) .. MaxSeriesDays
StepMinsChoices == {-1440, 0, 720, 1440, 2208, 3360, 7320, 14640, 29280}
MaxTicks == 1

------------------------------------------------------------------------------
(* State                                                                    *)

VARIABLES
    \* the system clock, in hours since the J2000.0 epoch
    clock,
    \* predict_tides: arguments of the call in progress (or of the last one)
    hcs, jd, step_mins, series_days,
    \* predict_tides: position, locals, and outcome
    pc, mean, H, G, JD0, step_days, series_length, nodeint,
    j, f_u, prediction, exc, result,
    \* history: the step at which (f, u) were last computed, and the outcome
    \* of the first call made with the present arguments
    node_j, first,
    \* calendar functions: the civil date given, position, values computed
    civil, cal_pc, cal_jd, cal_out,
    \* run_pstide: the options, position, what was written to the output
    \* file, and the rows of the data frame
    options, run_pc, fout, df,
    \* a library function called on its own: the arguments, position, result
    fun_in, fun_pc, fun_out

tide_vars == <<hcs, jd, step_mins, series_days, pc, mean, H, G, JD0, step_days,
               series_length, nodeint, j, f_u, prediction, exc, result,
               node_j, first>>
cal_vars == <<civil, cal_pc, cal_jd, cal_out>>
run_vars == <<options, run_pc, fout, df>>
fun_vars == <<fun_in, fun_pc, fun_out>>
vars == <<clock, tide_vars, cal_vars, run_vars, fun_vars>>

\* a local name that has not been assigned yet
Unbound == [unbound |-> TRUE]
\* a slot of the prediction list that still holds None
None == [none |-> TRUE]

------------------------------------------------------------------------------
(* tidefun.py part of pstide.py: predict_tides                              *)

NC == 37
tnode == DblScale2(IntToDbl(61), -1)
jd2000 == T(2451544, 43200, 0)

constit == <<"SA", "SSA", "MM", "MSF", "MF", "2Q1", "Q1", "RHO", "O1", "M1", "P1", "S1",
             "K1", "J1", "OO1", "2N2", "MU2", "N2", "NU2", "M2", "LAM2", "L2", "T2", "S2",
             "R2", "K2", "2SM2", "2MK3", "M3", "MK3", "MN4", "M4", "MS4", "S4", "M6", "S6",
             "M8">>

\* every key predict_tides reads, in the order it reads them
keys_read == <<"mean">> \o constit

\* the product rad * g of a phase lag in degrees, kept symbolic
rad(g) == [rad_times |-> g]

\* v2000 and node2000 are pure functions of their argument; their values are
\* kept symbolic
v2000(d2000) == [V0_at |-> d2000]
node2000(d2000) == [f_u_at |-> d2000]

\* hcs.get(key, (0, 0)) instead of hcs[key]
hcs_get_default(h, key) ==
    IF key \in DOMAIN h THEN [ok |-> TRUE, val |-> h[key]]
                        ELSE [ok |-> TRUE, val |-> <<0, 0>>]

\* hcs[key]: the value, or a KeyError
hcs_get(h, key) ==
    IF key \in DOMAIN h THEN [ok |-> TRUE, val |-> h[key]]
                        ELSE [ok |-> FALSE, val |-> key]

\* lines 820-830: mean, H and G (in radians), or the first KeyError
read_hcs(h) ==
    LET got == [i \in 1..(NC + 1) |-> hcs_get(h, keys_read[i])]
        bad == {i \in 1..(NC + 1) : ~got[i].ok}
    IN  IF bad # {}
        THEN [ok |-> FALSE,
              exc |-> [type |-> "KeyError",
                       arg |-> keys_read[CHOOSE i \in bad : \A k \in bad : i <= k]]]
        ELSE [ok |-> TRUE,
              mean |-> got[1].val,
              H |-> [i \in 1..NC |-> got[i + 1].val[1]],
              G |-> [i \in 1..NC |-> rad(got[i + 1].val[2])]]

\* mean = hcs.pop('mean') instead of mean = hcs['mean']
hcs_mean_popped(h) == [k \in (DOMAIN h) \ {"mean"} |-> h[k]]

\* lines 822-830: H and G are new lists filled by append, and the conversion
\* to radians assigns to G[i]; hcs is only subscripted, so the caller's
\* object is the same after these lines
hcs_after_read(h) == h

\* now(), lines 686-692: the Julian Day the system clock shows
now == TAdd(T(2451545, 0, 0), T(0, 3600 * clock, 0))

\* JD0 = now() instead of JD0 = jd
initial_JD_now(jdarg) == now

\* line 835
initial_JD(jdarg) == jdarg

\* JD = JD0 + step_days, the index forgotten
point_JD_no_index(jd0, sm, jj) == TAdd(jd0, T(0, 60 * sm, 1))

\* lines 843-846: JD = JD0 + step_days * j, then the 1e-9 nudge
point_JD(jd0, sm, jj) == TAdd(jd0, T(0, 60 * sm * jj, 1))

\* the test left out: (f, u) computed on every pass
node_update_always(jj, ni) == TRUE

\* line 857
node_update_due(jj, ni) == FModIsZero(jj, ni)

\* tide = 0 instead of tide = mean
tide_sum_from_zero(mn, fu, Hs, V0, Gs) ==
    LET term(i) == [i |-> i, H |-> Hs[i], G |-> Gs[i], fu |-> fu, V0 |-> V0]
    IN  [mean |-> 0,
         terms |-> SelectSeq([i \in 1..NC |-> term(i)], LAMBDA t : t.H # 0)]

\* lines 848, 861-864: mean plus the sum, in catalog order, of
\* f[i]*H[i]*cos(V0[i] + u[i] - G[i]); a term with H[i] = 0 adds nothing and
\* is left out of the sum
tide_sum(mn, fu, Hs, V0, Gs) ==
    LET term(i) == [i |-> i, H |-> Hs[i], G |-> Gs[i], fu |-> fu, V0 |-> V0]
    IN  [mean |-> mn,
         terms |-> SelectSeq([i \in 1..NC |-> term(i)], LAMBDA t : t.H # 0)]

\* [None] * n
none_list(n) == [i \in 1..(IF n > 0 THEN n ELSE 0) |-> None]


\* no exception
NoExc == [type |-> "none", arg |-> ""]

------------------------------------------------------------------------------
(* Inputs of predict_tides                                                  *)

all_keys == {keys_read[i] : i \in 1..(NC + 1)}

\* a complete coefficient set: mean m, (amplitude, phase lag in degrees) as
\* given by nonzero, (0, 0) for every other constituent
coefficients(m, nonzero) ==
    [k \in all_keys |-> IF k = "mean" THEN m
                        ELSE IF k \in DOMAIN nonzero THEN nonzero[k]
                        ELSE <<0, 0>>]

without(h, key) == [k \in (DOMAIN h) \ {key} |-> h[k]]

\* every amplitude 0, one phase lag not 0
hcs_flat == coefficients(2, [k \in {"S2"} |-> <<0, 45>>])
hcs_m2 == coefficients(2, [k \in {"M2"} |-> <<1, 0>>])
hcs_mixed == coefficients(3, [k \in {"K1", "M2"} |-> IF k = "K1" THEN <<1, 90>> ELSE <<2, 10>>])

HcsChoices == {hcs_flat, hcs_m2, hcs_mixed} \cup {without(hcs_m2, k) : k \in all_keys}

StartChoices == {T(2451545, 0, 0), T(2453000, 45000, 0)}

------------------------------------------------------------------------------
(* predict_tides as a process: the call, one pass of the loop, the return   *)

outcome(p, e, r) == [pc |-> p, exc |-> e, result |-> r]

\* history: the outcome of the first call, and whether a later call made
\* with the same arguments has completed as well (n = 2)
note_outcome(f, out) ==
    IF f = None THEN [out |-> out, n |-> 1] ELSE [f EXCEPT !.n = 2]

\* lines 808-841: everything before the loop, for a call with the arguments
\* hcs, jd, step_mins, series_days.  Every local starts unassigned.  j counts
\* the passes of the loop made so far, which is the index the next pass uses.
Call ==
    /\ pc \in {"idle", "returned", "raised"}
    /\ j' = 0 /\ f_u' = Unbound /\ node_j' = -1 /\ result' = Unbound
    /\ LET r == read_hcs(hcs)
       IN  \/ /\ ~r.ok
              /\ hcs' = hcs
              /\ pc' = "raised" /\ exc' = r.exc
              /\ mean' = Unbound /\ H' = Unbound /\ G' = Unbound /\ JD0' = Unbound
              /\ step_days' = Unbound /\ series_length' = Unbound
              /\ nodeint' = Unbound /\ prediction' = Unbound
              /\ first' = note_outcome(first, outcome("raised", r.exc, Unbound))
           \/ /\ r.ok
              /\ hcs' = hcs_after_read(hcs)
              /\ mean' = r.mean /\ H' = r.H /\ G' = r.G
              /\ JD0' = initial_JD(jd)
              /\ step_days' = FDiv(IntToDbl(step_mins), IntToDbl(minutes_per_day))
              /\ \/ /\ step_days'.sgn = 0
                    /\ pc' = "raised"
                    /\ exc' = [type |-> "ZeroDivisionError", arg |-> "float division by zero"]
                    /\ series_length' = Unbound /\ nodeint' = Unbound
                    /\ prediction' = Unbound
                    /\ first' = note_outcome(first, outcome("raised", exc', Unbound))
                 \/ /\ step_days'.sgn # 0
                    /\ series_length' = DblToInt(FDiv(IntToDbl(series_days), step_days'))
                    /\ nodeint' = FDiv(tnode, step_days')
                    /\ prediction' = none_list(series_length')
                    /\ pc' = "loop" /\ exc' = NoExc
                    /\ first' = first
    /\ UNCHANGED <<fun_vars, clock, jd, step_mins, series_days, cal_vars, run_vars>>

\* lines 842-867: one pass of the loop
LoopStep ==
    /\ pc = "loop" /\ j < series_length
    /\ LET JD    == point_JD(JD0, step_mins, j)
           d2000 == TSub(JD, jd2000)
           V0    == v2000(d2000)
           due   == node_update_due(j, nodeint)
           fu    == IF due THEN node2000(TAdd(d2000, T(15, 21600, 0))) ELSE f_u
       IN  /\ f_u' = fu
           /\ node_j' = IF due THEN j ELSE node_j
           /\ \/ /\ fu = Unbound
                 /\ pc' = "raised"
                 /\ exc' = [type |-> "UnboundLocalError", arg |-> "f"]
                 /\ first' = note_outcome(first, outcome("raised", exc', Unbound))
                 /\ UNCHANGED <<j, prediction>>
              \/ /\ fu # Unbound
                 /\ prediction' = [prediction EXCEPT
                                     ![j + 1] = [JD |-> JD, tide |-> tide_sum(mean, fu, H, V0, G)]]
                 /\ j' = j + 1
                 /\ UNCHANGED <<pc, exc, first>>
    /\ UNCHANGED <<fun_vars, clock, hcs, jd, step_mins, series_days, mean, H, G, JD0, step_days,
                   series_length, nodeint, result, cal_vars, run_vars>>

\* line 868
Return ==
    /\ pc = "loop" /\ j >= series_length
    /\ pc' = "returned"
    /\ result' = prediction
    /\ first' = note_outcome(first, outcome("returned", exc, prediction))
    /\ UNCHANGED <<fun_vars, clock, hcs, jd, step_mins, series_days, mean, H, G, JD0, step_days,
                   series_length, nodeint, j, f_u, prediction, exc, node_j, cal_vars, run_vars>>

\* the system clock advances
Tick ==
    /\ clock < MaxTicks
    /\ clock' = clock + 1
    /\ UNCHANGED <<fun_vars, tide_vars, cal_vars, run_vars>>

\* the arguments a caller passes
TideInit ==
    /\ hcs \in HcsChoices /\ jd \in StartChoices
    /\ step_mins \in StepMinsChoices /\ series_days \in SeriesDaysChoices
    /\ pc = "idle" /\ mean = Unbound /\ H = Unbound /\ G = Unbound /\ JD0 = Unbound
    /\ step_days = Unbound /\ series_length = Unbound /\ nodeint = Unbound
    /\ j = 0 /\ f_u = Unbound /\ prediction = Unbound /\ exc = NoExc
    /\ result = Unbound /\ node_j = -1 /\ first = None

CalIdle ==
    /\ civil = [yr |-> 2000, mo |-> 1, dy |-> 1, hr |-> 12, mn |-> 0]
    /\ cal_pc = "off" /\ cal_jd = Unbound /\ cal_out = Unbound

\* run_pstide is not called
RunIdle ==
    /\ options = [pacific |-> TRUE, julian |-> FALSE, title |-> TRUE, feet |-> FALSE,
                  interval |-> 60, length |-> 1]
    /\ run_pc = "off" /\ fout = <<>> /\ df = <<>>

\* no library function is called on its own
FunIdle == fun_in = None /\ fun_pc = "off" /\ fun_out = Unbound

Init == clock = 0 /\ TideInit /\ CalIdle /\ RunIdle /\ FunIdle

Next ==
    \/ Call
    \/ LoopStep
    \/ Return
    \/ Tick

Spec == Init /\ [][Next]_vars

------------------------------------------------------------------------------
(* The calendar functions, applied to a civil date and time                  *)

days_in_month(yr, mo) ==
    IF mo = 2 THEN (IF is_leap_year(yr, TRUE) THEN 29 ELSE 28)
    ELSE IF mo \in {4, 6, 9, 11} THEN 30 ELSE 31

CivilChoices ==
    {[yr |-> y, mo |-> m, dy |-> d, hr |-> h, mn |-> n] :
        y \in MinYear..MaxYear, m \in 1..12, d \in 1..31, h \in 0..23, n \in MinuteChoices}

\* run_pstide, line 228: jd = cal_to_jd(year, month, day + hms_to_fday(hour, minute, 0))
CalToJd ==
    /\ cal_pc = "given"
    /\ cal_jd' = cal_to_jd(civil.yr, civil.mo,
                           TAdd(T(civil.dy, 0, 0), hms_to_fday(civil.hr, civil.mn, 0)), TRUE)
    /\ cal_pc' = "jd" /\ cal_out' = Unbound
    /\ UNCHANGED <<fun_vars, clock, tide_vars, run_vars, civil>>

JdToCal ==
    /\ cal_pc = "jd"
    /\ cal_out' = jd_to_cal(cal_jd, TRUE)
    /\ cal_pc' = "jd_to_cal"
    /\ UNCHANGED <<fun_vars, clock, tide_vars, run_vars, civil, cal_jd>>

\* is_dst(jd), the Julian Day read as Universal Time
IsDst ==
    /\ cal_pc = "jd"
    /\ cal_out' = [dst |-> is_dst(cal_jd, standard_timezone_offset, daylight_timezone_offset)]
    /\ cal_pc' = "is_dst"
    /\ UNCHANGED <<fun_vars, clock, tide_vars, run_vars, civil, cal_jd>>

\* lt_to_ut(jd), the Julian Day read as local time
LtToUt ==
    /\ cal_pc = "jd"
    /\ cal_out' = [ut |-> lt_to_ut(cal_jd, standard_timezone_offset, daylight_timezone_offset)]
    /\ cal_pc' = "lt_to_ut"
    /\ UNCHANGED <<fun_vars, clock, tide_vars, run_vars, civil, cal_jd>>

\* ... and back: ut_to_lt(lt_to_ut(jd))
UtToLtBack ==
    /\ cal_pc = "lt_to_ut"
    /\ cal_out' = [ut |-> cal_out.ut, back |-> ut_to_lt(cal_out.ut)]
    /\ cal_pc' = "lt_ut_lt"
    /\ UNCHANGED <<fun_vars, clock, tide_vars, run_vars, civil, cal_jd>>

\* ut_to_lt(jd), the Julian Day read as Universal Time
UtToLt ==
    /\ cal_pc = "jd"
    /\ cal_out' = [lt |-> ut_to_lt(cal_jd)]
    /\ cal_pc' = "ut_to_lt"
    /\ UNCHANGED <<fun_vars, clock, tide_vars, run_vars, civil, cal_jd>>

\* ... and back: lt_to_ut(ut_to_lt(jd)[0])
LtToUtBack ==
    /\ cal_pc = "ut_to_lt"
    /\ cal_out' = [lt |-> cal_out.lt,
                   back |-> lt_to_ut(cal_out.lt.jd, standard_timezone_offset,
                                     daylight_timezone_offset)]
    /\ cal_pc' = "ut_lt_ut"
    /\ UNCHANGED <<fun_vars, clock, tide_vars, run_vars, civil, cal_jd>>

\* run_pstide in Pacific mode, lines 229, 233 and 241-242, up to the first
\* row: jd_utc = lt_to_ut(jd); the first point of predict_tides; print_tide,
\* lines 119-121
FirstRow ==
    /\ cal_pc = "jd"
    /\ LET jd_utc   == lt_to_ut(cal_jd, standard_timezone_offset, daylight_timezone_offset)
           JD       == point_JD(initial_JD(jd_utc), 60, 0)
           lt       == ut_to_lt(JD)
       IN  cal_out' = [jd_local |-> lt.jd, datetext |-> jd_to_ISO(lt.jd, lt.zone)]
    /\ cal_pc' = "first_row"
    /\ UNCHANGED <<fun_vars, clock, tide_vars, run_vars, civil, cal_jd>>

\* predict_tides is not called
TideIdle ==
    /\ hcs = hcs_flat /\ jd = T(2451545, 0, 0) /\ step_mins = 60 /\ series_days = 1
    /\ pc = "off" /\ mean = Unbound /\ H = Unbound /\ G = Unbound /\ JD0 = Unbound
    /\ step_days = Unbound /\ series_length = Unbound /\ nodeint = Unbound
    /\ j = 0 /\ f_u = Unbound /\ prediction = Unbound /\ exc = NoExc
    /\ result = Unbound /\ node_j = -1 /\ first = None

CalInit ==
    /\ civil \in {c \in CivilChoices : c.dy <= days_in_month(c.yr, c.mo)}
    /\ cal_pc = "given" /\ cal_jd = Unbound /\ cal_out = Unbound

InitCal == clock = 0 /\ TideIdle /\ CalInit /\ RunIdle /\ FunIdle

NextCal ==
    \/ CalToJd
    \/ JdToCal
    \/ IsDst
    \/ LtToUt
    \/ UtToLtBack
    \/ UtToLt
    \/ LtToUtBack
    \/ FirstRow

SpecCal == InitCal /\ [][NextCal]_vars

------------------------------------------------------------------------------
(* run_pstide: the start is parsed and converted, predict_tides is called,  *)
(* the title and one row per point are written                              *)

MaxLength == 2
IntervalChoices == {720, 1440}

OptionChoices ==
    [pacific : BOOLEAN, julian : BOOLEAN, title : BOOLEAN, feet : BOOLEAN,
     interval : IntervalChoices, length : 1..MaxLength]

\* options['start'], parsed (lines 219-226)
RunStartChoices ==
    {[yr |-> 2000, mo |-> 7, dy |-> 4, hr |-> 9, mn |-> 30],
     [yr |-> 2001, mo |-> 1, dy |-> 15, hr |-> 0, mn |-> 0]}

\* print_title, line 64
tzname(opt) == IF opt.pacific THEN "Local" ELSE IF opt.julian THEN "JD" ELSE "UTC"

\* print_title, lines 71 and 75-85: the lines of the title that tell how the
\* rows are to be read (the other lines name the segment and the run)
title_lines(opt, start) ==
    <<[starting_time |-> start],
      [heights_in |-> IF opt.feet THEN "feet" ELSE "meters"],
      IF tzname(opt) = "UTC"
          THEN [time_in |-> "Universal Time (UTC)", column |-> "Datetime"]
      ELSE IF tzname(opt) = "Local"
          THEN [time_in |-> "Pacific Time (PST or PDT)", column |-> "Datetime"]
      ELSE [time_in |-> "Julian Days (JD)", column |-> "Day"]>>

\* f"{jd:12.4f}": the Julian Day rounded to a whole number of 1e-4 days
\* (8.64 s each), as its whole days and its four decimals; the 1e-9 nudge
\* settles a tie
format_jd(x) ==
    LET num  == x.s * 10000
        q    == num \div seconds_per_day
        rem2 == 2 * (num % seconds_per_day)
        up   == rem2 > seconds_per_day \/ (rem2 = seconds_per_day /\ x.n > 0)
        e4   == q + (IF up THEN 1 ELSE 0)
    IN  [days |-> x.d + (e4 \div 10000), decimals |-> e4 % 10000]

\* print_tide, line 117
height_str(height, opt) ==
    IF opt.feet THEN [feet_1f |-> height] ELSE [meters_2f |-> height]

\* print_tide, lines 119-127: the text of the time column
datetext_of(x, opt) ==
    IF opt.pacific
    THEN LET lt == ut_to_lt(x) IN jd_to_ISO(lt.jd, lt.zone)
    ELSE IF opt.julian
    THEN format_jd(x)
    ELSE LET c   == jd_to_cal(x, TRUE)
             hms == fday_to_hms(c.day)
         IN  [year |-> c.yr, month |-> c.mo, day |-> c.day.d,
              hour |-> hms.hour, minute |-> hms.minute, zone |-> "UTC"]

\* lines 219-229: jd and jd_utc; the arguments of predict_tides (line 233)
RunStart ==
    /\ run_pc = "start"
    /\ LET start == cal_to_jd(civil.yr, civil.mo,
                              TAdd(T(civil.dy, 0, 0), hms_to_fday(civil.hr, civil.mn, 0)), TRUE)
       IN  /\ cal_jd' = start
           /\ jd' = IF options.pacific
                       THEN lt_to_ut(start, standard_timezone_offset, daylight_timezone_offset)
                       ELSE start
    /\ step_mins' = options.interval /\ series_days' = options.length
    /\ run_pc' = "predict"
    /\ UNCHANGED <<fun_vars, clock, hcs, pc, mean, H, G, JD0, step_days, series_length, nodeint, j, f_u,
                   prediction, exc, result, node_j, first, civil, cal_pc, cal_out,
                   options, fout, df>>

\* line 233: the call of predict_tides
RunPredict == run_pc = "predict" /\ pc = "idle" /\ Call

\* lines 236-239: the title, if asked for, and an empty data frame
PrintTitle ==
    /\ run_pc = "predict" /\ pc = "returned"
    /\ fout' = IF options.title THEN title_lines(options, civil) ELSE <<>>
    /\ df' = <<>>
    /\ run_pc' = "rows"
    /\ UNCHANGED <<fun_vars, clock, tide_vars, cal_vars, options>>

\* lines 241-242 and print_tide: the row of the next point, appended to the
\* output file and to the data frame
PrintTide ==
    /\ run_pc = "rows" /\ Len(df) < Len(result)
    /\ LET tide == result[Len(df) + 1]
           row  == [datetext |-> datetext_of(tide.JD, options),
                    height |-> height_str(tide.tide, options)]
       IN  /\ fout' = Append(fout, row)
           /\ df' = Append(df, row)
    /\ UNCHANGED <<fun_vars, clock, tide_vars, cal_vars, options, run_pc>>

\* lines 244-266: the file is closed and the data frame returned
RunClose ==
    /\ run_pc = "rows" /\ Len(df) = Len(result)
    /\ run_pc' = "closed"
    /\ UNCHANGED <<fun_vars, clock, tide_vars, cal_vars, options, fout, df>>

InitRun ==
    /\ clock = 0
    /\ hcs \in {hcs_m2, hcs_mixed} /\ jd = Unbound /\ step_mins = Unbound
    /\ series_days = Unbound
    /\ pc = "idle" /\ mean = Unbound /\ H = Unbound /\ G = Unbound /\ JD0 = Unbound
    /\ step_days = Unbound /\ series_length = Unbound /\ nodeint = Unbound
    /\ j = 0 /\ f_u = Unbound /\ prediction = Unbound /\ exc = NoExc
    /\ result = Unbound /\ node_j = -1 /\ first = None
    /\ civil \in RunStartChoices
    /\ cal_pc = "off" /\ cal_jd = Unbound /\ cal_out = Unbound
    /\ options \in OptionChoices
    /\ run_pc = "start" /\ fout = <<>> /\ df = <<>>
    /\ FunIdle

NextRun ==
    \/ RunStart
    \/ RunPredict
    \/ LoopStep
    \/ Return
    \/ PrintTitle
    \/ PrintTide
    \/ RunClose

SpecRun == InitRun /\ [][NextRun]_vars

------------------------------------------------------------------------------
(* Library functions called on their own                                    *)

\* fractional days given to fday_to_hms: 2.75, -0.25 and -2^-60
FdayChoices ==
    {DblScale2(IntToDbl(11), -2), DblScale2(IntToDbl(-1), -2), DblScale2(IntToDbl(-1), -60)}

SecondChoices == {0, 30}

FunInputs ==
    [yr : MinYear..MaxYear, jd : StartChoices,
     hr : 0..23, mn : MinuteChoices, sec : SecondChoices, fday : FdayChoices]

Easter ==
    /\ fun_pc = "given"
    /\ \E gregorian \in BOOLEAN :
          fun_out' = [gregorian |-> gregorian, date |-> easter(fun_in.yr, gregorian)]
    /\ fun_pc' = "easter"
    /\ UNCHANGED <<clock, tide_vars, cal_vars, run_vars, fun_in>>

SiderealTime ==
    /\ fun_pc = "given"
    /\ fun_out' = sidereal_time_greenwich(fun_in.jd)
    /\ fun_pc' = "sidereal_time_greenwich"
    /\ UNCHANGED <<clock, tide_vars, cal_vars, run_vars, fun_in>>

HmsToFday ==
    /\ fun_pc = "given"
    /\ fun_out' = [fday |-> hms_to_fday_double(fun_in.hr, fun_in.mn, fun_in.sec)]
    /\ fun_pc' = "hms_to_fday"
    /\ UNCHANGED <<clock, tide_vars, cal_vars, run_vars, fun_in>>

\* ... and back: fday_to_hms(hms_to_fday(hr, mn, sec))
FdayToHmsBack ==
    /\ fun_pc = "hms_to_fday"
    /\ fun_out' = [fday |-> fun_out.fday, hms |-> fday_to_hms_double(fun_out.fday)]
    /\ fun_pc' = "hms_fday_hms"
    /\ UNCHANGED <<clock, tide_vars, cal_vars, run_vars, fun_in>>

FdayToHms ==
    /\ fun_pc = "given"
    /\ fun_out' = fday_to_hms_double(fun_in.fday)
    /\ fun_pc' = "fday_to_hms"
    /\ UNCHANGED <<clock, tide_vars, cal_vars, run_vars, fun_in>>

InitFun ==
    /\ clock = 0 /\ TideIdle /\ CalIdle /\ RunIdle
    /\ fun_in \in FunInputs /\ fun_pc = "given" /\ fun_out = Unbound

NextFun ==
    \/ Easter
    \/ SiderealTime
    \/ HmsToFday
    \/ FdayToHmsBack
    \/ FdayToHms

SpecFun == InitFun /\ [][NextFun]_vars

------------------------------------------------------------------------------
(* Properties of predict_tides, checked under Spec                          *)

complete_hcs == DOMAIN hcs = all_keys

\* C1: for step_minutes > 0 and series_days > 0 the sequence built by
\* predict_tides has exactly floor(series_days * 1440 / step_minutes) entries.
C1_LengthLaw ==
    (pc \in {"loop", "returned"} /\ step_mins > 0 /\ series_days > 0)
        => Len(prediction) = (series_days * 1440) \div step_mins

\* C2: for step_minutes > 0, the (f, u) used by the pass with index j - 1
\* were computed at a pass j0 <= j - 1 less than 30.5 days (43920 minutes)
\* of simulated time earlier.
C2_NodeFactorsFresh ==
    (pc \in {"loop", "returned"} /\ step_mins > 0 /\ j > 0)
        => /\ 0 <= node_j /\ node_j <= j - 1
           /\ (j - 1 - node_j) * step_mins * 2 < 61 * minutes_per_day

\* C3: with step_minutes <= 0 or series_days <= 0 (and a complete coefficient
\* set) predict_tides returns the empty sequence and raises nothing.
C3_DegenerateIsEmpty ==
    (pc \in {"returned", "raised"} /\ complete_hcs /\ (step_mins <= 0 \/ series_days <= 0))
        => (pc = "returned" /\ result = <<>>)

\* C8: when 'mean' or a constituent key is missing from the coefficient set,
\* the call raises (a KeyError naming a missing key) and no sequence, not
\* even a partial one, is built or returned.
C8_MissingKeyRaises ==
    (pc # "idle" /\ ~complete_hcs)
        => /\ pc = "raised"
           /\ exc.type = "KeyError" /\ exc.arg \notin DOMAIN hcs
           /\ prediction = Unbound /\ result = Unbound

C8_Witness == pc = "raised" /\ exc.type = "KeyError" /\ exc.arg = "M8"

C10_Deterministic ==
    (pc \in {"returned", "raised"})
        => /\ first # None
           /\ first.out.pc = pc
           /\ first.out.exc = exc
           /\ (pc = "returned" => first.out.result = result)

C10_Witness == pc = "returned" /\ first # None /\ first.n = 2 /\ clock > 0 /\ Len(result) >= 2

\* j is a whole multiple of the double x, for 0 < j < 2^27: the long division
\* of j by |x| leaves no remainder and its quotient has no bit below the
\* units
is_whole_multiple(jj, x) ==
    LET a   == IntToDbl(jj)
        am  == [hi |-> a.hi, lo |-> a.lo]
        xm  == [hi |-> x.hi, lo |-> x.lo]
        big == WGe(am, xm)
        d   == LongDiv(IF big THEN WSub(am, xm) ELSE am, xm,
                       [hi |-> 0, lo |-> IF big THEN 1 ELSE 0], 18)
    IN  d.r.hi = 0 /\ d.r.lo = 0 /\ ~WLowSet(d.q, 54 - (a.e - x.e))

\* C14: in a pass of the loop (f, u) change only if j mod nodeint = 0, the
\* remainder taken as the code takes it, of the integer j by the double
\* nodeint = 30.5 / step_days; in such a pass they become node2000 at that
\* pass's d2000 + 15.25, in every other pass they stay as they were; V0 is
\* v2000 at the pass's own d2000 in every pass.
C14_NodeFactorsHeld ==
    [][(pc = "loop" /\ j' = j + 1)
          => LET point == prediction'[j + 1]
                 d2000 == TSub(point.JD, jd2000)
             IN  /\ f_u' = IF j = 0 \/ is_whole_multiple(j, nodeint)
                              THEN node2000(TAdd(d2000, T(15, 21600, 0)))
                              ELSE f_u
                 /\ \A i \in 1..Len(point.tide.terms) :
                        /\ point.tide.terms[i].V0 = v2000(d2000)
                        /\ point.tide.terms[i].fu = f_u']_vars

\* with a step of 720 minutes (f, u) were computed again in pass 61 and held
\* in the passes after it
C14_Witness ==
    /\ pc = "loop" /\ step_mins = 720 /\ j >= 64 /\ node_j = 61
    /\ f_u = node2000(TAdd(TSub(prediction[62].JD, jd2000), T(15, 21600, 0)))
    /\ Len(prediction[64].tide.terms) >= 1

\* C11: no step of predict_tides, whether the call goes on to return or to
\* raise, changes the caller's coefficient set: hcs['mean'] and every
\* (amplitude, phase lag in degrees) pair stay as they were; the phase lags
\* in radians exist only in the local list G.
C11_HcsUnchanged == [][hcs' = hcs]_vars

\* K1 is the 13th constituent; its phase lag of 90 degrees has been converted
C11_Witness ==
    /\ pc = "returned" /\ Len(result) >= 1
    /\ G[13] = rad(90) /\ hcs["K1"] = <<1, 90>> /\ hcs = hcs_mixed

\* C18: for step_minutes > 0, whether or not the step divides 30.5 days,
\* node2000 has been evaluated in the pass j = 0, at that pass's
\* d2000 + 15.25, before the first height is summed: (f, u) are bound
\* whenever a sum reads them and the call never fails for want of them.
C18_NodeFactorsDefined ==
    step_mins > 0
        => /\ pc = "raised" => exc.type # "UnboundLocalError"
           /\ (pc \in {"loop", "returned"} /\ j >= 1)
                 => /\ node_j >= 0 /\ f_u # Unbound
                    /\ \A k \in 1..j : \A i \in 1..Len(prediction[k].tide.terms) :
                           /\ prediction[k].tide.terms[i].fu # Unbound
                           /\ DOMAIN prediction[k].tide.terms[i].fu = {"f_u_at"}
                    /\ \A i \in 1..Len(prediction[1].tide.terms) :
                           prediction[1].tide.terms[i].fu
                              = node2000(TAdd(TSub(prediction[1].JD, jd2000), T(15, 21600, 0)))

\* a step of 2208 minutes does not divide 30.5 days
C18_Witness ==
    /\ pc = "returned" /\ step_mins = 2208 /\ Len(result) >= 2 /\ node_j = 0
    /\ Len(result[2].tide.terms) >= 1

\* the constituents of hcs with an amplitude other than 0, in catalog order
sounding == SelectSeq([i \in 1..NC |-> i], LAMBDA i : hcs[constit[i]][1] # 0)

\* C19: every height is hcs['mean'] plus the sum, in catalog order, of
\* f[i] * H[i] * cos(V0[i] + u[i] - G[i]) with H[i] the amplitude and G[i]
\* the phase lag, in radians, of the i-th catalog name in hcs (a term with
\* amplitude 0 adds nothing); with every amplitude 0 each height is
\* hcs['mean'].
C19_HeightFormula ==
    (pc \in {"loop", "returned"})
        => LET snd  == sounding
               n_s  == Len(snd)
               flat == \A c \in all_keys \ {"mean"} : hcs[c][1] = 0
           IN  \A k \in 1..j :
                  LET tide == prediction[k].tide
                      V0   == v2000(TSub(prediction[k].JD, jd2000))
                  IN  /\ tide.mean = hcs["mean"]
                      /\ Len(tide.terms) = n_s
                      /\ \A n \in 1..n_s :
                             /\ tide.terms[n].i = snd[n]
                             /\ tide.terms[n].H = hcs[constit[snd[n]]][1]
                             /\ tide.terms[n].G = rad(hcs[constit[snd[n]]][2])
                             /\ tide.terms[n].V0 = V0
                             /\ "f_u_at" \in DOMAIN tide.terms[n].fu
                      /\ flat => tide = [mean |-> hcs["mean"], terms |-> <<>>]

\* a series for a coefficient set with every amplitude 0 and a phase lag of
\* 45 degrees
C19_Witness ==
    /\ pc = "returned" /\ Len(result) >= 2
    /\ hcs = hcs_flat /\ hcs["S2"] = <<0, 45>>
    /\ result[2].tide = [mean |-> 2, terms |-> <<>>]

------------------------------------------------------------------------------
(* Properties of the calendar functions, checked under SpecCal              *)

\* Meeus, Astronomical Algorithms, (7.1): B = 2 - A + INT(A / 4)
Meeus_jd(yr0, mo0, day) ==
    LET yr == IF mo0 <= 2 THEN yr0 - 1 ELSE yr0
        mo == IF mo0 <= 2 THEN mo0 + 12 ELSE mo0
        A  == yr \div 100
        B  == 2 - A + (A \div 4)
        whole == ((36525 * (yr + 4716)) \div 100) + ((306001 * (mo + 1)) \div 10000)
    IN  TAdd(T(whole + B - 1525, 43200, 0), day)

\* the day and time of day given, as cal_to_jd receives it
civil_day == T(civil.dy, civil.hr * 3600 + civil.mn * 60, 0)

\* C4: jd_to_cal(cal_to_jd(y, m, d)) gives back the year, the month and,
\* within 1e-6 day (1000 nudges of 1e-9), the day.
C4_RoundTrip ==
    cal_pc = "jd_to_cal"
        => /\ cal_out.yr = civil.yr /\ cal_out.mo = civil.mo
           /\ cal_out.day.d = civil_day.d /\ cal_out.day.s = civil_day.s
           /\ cal_out.day.n <= 1000

\* C5: cal_to_jd returns the Julian Day of the Meeus algorithm; for
\* 2000-01-01 12:00 that is 2451545.0.
C5_CalToJdIsMeeus ==
    cal_pc = "jd"
        => /\ cal_jd = Meeus_jd(civil.yr, civil.mo, civil_day)
           /\ (civil = [yr |-> 2000, mo |-> 1, dy |-> 1, hr |-> 12, mn |-> 0]
                  => cal_jd = T(2451545, 0, 0))

first_sunday_of_april(Y) ==
    CHOOSE k \in 1..7 : jd_to_day_of_week(Meeus_jd(Y, 4, T(k, 0, 0))) = 0
last_sunday_of_october(Y) ==
    CHOOSE k \in 25..31 : jd_to_day_of_week(Meeus_jd(Y, 10, T(k, 0, 0))) = 0
\* 02:00 Pacific standard time is 10:00 UTC; 02:00 Pacific daylight time is
\* 09:00 UTC
daylight_begins_utc(Y) == Meeus_jd(Y, 4, T(first_sunday_of_april(Y), 10 * 3600, 0))
daylight_ends_utc(Y) == Meeus_jd(Y, 10, T(last_sunday_of_october(Y), 9 * 3600, 0))
one_minute == T(0, 60, 0)
one_hour == T(0, 3600, 0)

\* C6: in every year, is_dst is False one minute before daylight time begins
\* and True one minute after, True one minute before it ends and False one
\* minute after.
C6_DstWindow ==
    cal_pc = "is_dst"
        => \A Y \in MinYear..MaxYear :
              /\ cal_jd = TSub(daylight_begins_utc(Y), one_minute) => ~cal_out.dst
              /\ cal_jd = TAdd(daylight_begins_utc(Y), one_minute) => cal_out.dst
              /\ cal_jd = TSub(daylight_ends_utc(Y), one_minute) => cal_out.dst
              /\ cal_jd = TAdd(daylight_ends_utc(Y), one_minute) => ~cal_out.dst

\* what the first row shows, as a day and time of day
shown_day == T(cal_out.datetext.iday, cal_out.datetext.hr * 3600 + cal_out.datetext.mn * 60, 0)

in_skipped_hour(x) ==
    LET begins == dst_start(jd_to_cal(x, TRUE).yr, T(0, 0, 0))
    IN  ~TLess(x, begins) /\ TLess(x, TAdd(begins, one_hour))

\* the hour of Universal Time after daylight time has ended, whose local
\* reading repeats the hour before
in_repeated_hour(y) ==
    LET ends == dst_stop(jd_to_cal(y, TRUE).yr, daylight_timezone_offset)
    IN  ~TLess(y, ends) /\ TLess(y, TAdd(ends, one_hour))

in_local_daylight_window(x) ==
    LET Y      == jd_to_cal(x, TRUE).yr
        begins == Meeus_jd(Y, 4, T(first_sunday_of_april(Y), 2 * 3600, 0))
        ends   == Meeus_jd(Y, 10, T(last_sunday_of_october(Y), 2 * 3600, 0))
    IN  ~TLess(x, begins) /\ TLess(x, ends)

\* C15: lt_to_ut(jd) returns jd + daylight_offset exactly when jd, read as
\* local wall-clock time, lies in [first Sunday of April 02:00, last Sunday
\* of October 02:00) of its year, and jd + standard_offset otherwise.
C15_LtToUtLocalWindow ==
    cal_pc = "lt_to_ut"
        => cal_out.ut = TAdd(cal_jd, IF in_local_daylight_window(cal_jd)
                                        THEN daylight_timezone_offset
                                        ELSE standard_timezone_offset)

------------------------------------------------------------------------------
(* Properties of run_pstide, checked under SpecRun                          *)

\* the rows written to the output file so far
rows_written == SelectSeq(fout, LAMBDA l : "datetext" \in DOMAIN l)

\* the line of the title that announces the time representation
title_announces ==
    {fout[i].time_in : i \in {k \in 1..Len(fout) : "time_in" \in DOMAIN fout[k]}}

\* C12: when run_pstide is called with julian=True, the time column of every
\* row written is a Julian Day in the format %12.4f and the title, when there
\* is one, announces Julian Days.
C12_JulianRows ==
    (options.julian /\ run_pc \in {"rows", "closed"})
        => /\ \A i \in 1..Len(rows_written) : DOMAIN rows_written[i].datetext = {"days", "decimals"}
           /\ options.title => title_announces = {"Julian Days (JD)"}

------------------------------------------------------------------------------
(* Properties of the library functions, checked under SpecFun               *)

\* C13: sidereal_time_greenwich(jd) raises nothing and returns the angle
\* theta0 mod 360 degrees turned into radians, which lies in [0, 2*pi).
C13_SiderealTimeReturns ==
    fun_pc = "sidereal_time_greenwich"
        => /\ fun_out.ok
           /\ DOMAIN fun_out.result = {"radians_of"}
           /\ DOMAIN fun_out.result.radians_of = {"theta0_mod_360_at"}

\* Meeus, Astronomical Algorithms, chapter 8: the date of Easter, every
\* division an integer division
Meeus_easter(yr, gregorian) ==
    IF gregorian
    THEN LET a == yr % 19
             b == yr \div 100
             c == yr % 100
             d == b \div 4
             e == b % 4
             f == (b + 8) \div 25
             g == (b - f + 1) \div 3
             h == (19 * a + b - d - g + 15) % 30
             i == c \div 4
             k == c % 4
             l == (32 + 2 * e + 2 * i - h - k) % 7
             m == (a + 11 * h + 22 * l) \div 451
             tmp == h + l - 7 * m + 114
         IN  [mo |-> tmp \div 31, dy |-> (tmp % 31) + 1]
    ELSE LET a == yr % 4
             b == yr % 7
             c == yr % 19
             d == (19 * c + 15) % 30
             e == (2 * a + 4 * b - d + 34) % 7
             tmp == d + e + 114
         IN  [mo |-> tmp \div 31, dy |-> (tmp % 31) + 1]

\* C17: easter(yr) returns an integer month, 3 or 4, and an integer day in
\* 1..31, those of the Meeus algorithm, for the Gregorian and for the Julian
\* calendar.
C17_EasterIsMeeus ==
    fun_pc = "easter"
        => LET want == Meeus_easter(fun_in.yr, fun_out.gregorian)
           IN  /\ fun_out.date.mo = QInt(want.mo) /\ want.mo \in {3, 4}
               /\ fun_out.date.dy = QInt(want.dy) /\ want.dy \in 1..31

\* C16: for every input fday_to_hms returns an hour in 0..23, a minute in
\* 0..59 and a second in [0, 60) that add up to the fractional part of the
\* input, so that fday_to_hms(hms_to_fday(h, m, s)) = (h, m, s) for valid
\* h, m, s.
C16_HmsInRangeAndBack ==
    /\ fun_pc = "fday_to_hms"
          => /\ fun_out.hours \in 0..23 /\ fun_out.minutes \in 0..59
             /\ fun_out.seconds.sgn >= 0 /\ FLess(fun_out.seconds, IntToDbl(60))
    /\ fun_pc = "hms_fday_hms"
          => /\ fun_out.hms.hours = fun_in.hr /\ fun_out.hms.minutes = fun_in.mn
             /\ fun_out.hms.seconds = IntToDbl(fun_in.sec)

====
